---- MODULE Spec2Model ----
(***************************************************************************)
(* Model of lelamp/service/emotion/emotion_service.py: the EmotionService  *)
(* reaction pipeline (trigger_reaction, analyze_emotion,                   *)
(* map_emotion_to_recording) called from several threads.                  *)
(*                                                                         *)
(* Time is counted in whole ticks of time.time(); confidences are counted  *)
(* in tenths (7 stands for 0.7).                                           *)
(***************************************************************************)
EXTENDS Integers, Sequences, FiniteSets, TLC

\* ------------------------------------------------------------------ bounds

\* value of time.time() when the service is constructed (last_reaction_time
\* starts at 0.0, far in the past of any real clock)
StartTime == 3
\* number of clock ticks a behaviour may see
MaxTicks == 3

\* the threads that call trigger_reaction
Procs == {"t1", "t2"}
NoHolder == "free"

\* ------------------------------------------------------- program constants

\* default of min_confidence, in tenths
DefaultMinConfidence == 7
\* default of cooldown_seconds
DefaultCooldown == 2

\* class Emotion
Emotions ==
    {"happy", "excited", "sad", "curious", "thoughtful", "angry", "surprised", "neutral"}

\* the table built by __init__
EmotionToRecording ==
    [e \in Emotions |->
        CASE e = "happy"      -> <<"happy_wiggle", "excited">>
          [] e = "excited"    -> <<"excited", "luxo_excited", "happy_wiggle">>
          [] e = "sad"        -> <<"sad", "luxo_sad", "head_down">>
          [] e = "curious"    -> <<"curious", "luxo_curious">>
          [] e = "thoughtful" -> <<"thinking", "thoughtful">>
          [] e = "angry"      -> <<"luxo_sad", "head_down", "sad">>
          [] e = "surprised"  -> <<"luxo_excited", "excited">>
          [] OTHER            -> <<"idle">>]

\* emotion_map of analyze_emotion: label (lower case) -> Emotion
EmotionMapKeys ==
    {"happy", "excited", "joy", "sad", "disappointed", "upset", "curious",
     "interested", "wondering", "thoughtful", "thinking", "contemplating",
     "angry", "frustrated", "annoyed", "surprised", "shocked", "neutral", "calm"}

\* (mutant) a label outside the table falls to the first Emotion, not to NEUTRAL
emotion_map_DefaultHappy(s) ==
    CASE s \in {"excited", "joy"}                          -> "excited"
      [] s \in {"sad", "disappointed", "upset"}            -> "sad"
      [] s \in {"curious", "interested", "wondering"}      -> "curious"
      [] s \in {"thoughtful", "thinking", "contemplating"} -> "thoughtful"
      [] s \in {"angry", "frustrated", "annoyed"}          -> "angry"
      [] s \in {"surprised", "shocked"}                    -> "surprised"
      [] s \in {"neutral", "calm"}                         -> "neutral"
      [] OTHER                                             -> "happy"

emotion_map(s) ==
    CASE s \in {"happy"}                                   -> "happy"
      [] s \in {"excited", "joy"}                          -> "excited"
      [] s \in {"sad", "disappointed", "upset"}            -> "sad"
      [] s \in {"curious", "interested", "wondering"}      -> "curious"
      [] s \in {"thoughtful", "thinking", "contemplating"} -> "thoughtful"
      [] s \in {"angry", "frustrated", "annoyed"}          -> "angry"
      [] s \in {"surprised", "shocked"}                    -> "surprised"
      [] s \in {"neutral", "calm"}                         -> "neutral"
      [] OTHER                                             -> "neutral"

\* str.lower() on the labels the model feeds in
Lower(s) ==
    CASE s = "HAPPY" -> "happy"
      [] OTHER       -> s

\* ------------------------------------------------------------------ inputs

\* texts handed to trigger_reaction: empty, whitespace only, words
Texts == {"", "  ", "hello"}
IsBlank(t) == t \in {"", "  "}

\* confidences a response may carry (tenths)
ConfValues == {0, 6, 7, 9}
\* labels a response may carry in its emotion field
RawLabels == {"happy", "excited", "sad", "angry", "neutral", "joy", "calm", "HAPPY", "bogus"}

Missing == "<missing>"
Null == "<null>"
Malformed == "<malformed>"

\* what the remote model may answer: the request fails; text without any JSON;
\* JSON that is no object; the empty object; an object with some fields
\* (confidence is a tagged value: a number, or one of the three markers)
ConfFields ==
    [tag : {"number"}, val : ConfValues] \cup [tag : {Missing, Null, Malformed}, val : {0}]

Responses ==
    [kind : {"raise", "nojson", "array", "empty"},
     emotion : {Missing}, confidence : {[tag |-> Missing, val |-> 0]}]
    \cup [kind : {"obj"}, emotion : RawLabels \cup {Missing, Null}, confidence : ConfFields]

\* thresholds the configuration may set (tenths)
MinConfidences == {DefaultMinConfidence, 9}

\* the recordings get_recording_path can resolve
StoreChoices ==
    {{}, {"happy_wiggle"}, {"excited", "luxo_sad"}, {"happy_wiggle", "excited", "sad", "idle"}}

\* ---------------------------------------------------------- pure functions

NoResult == [none |-> TRUE, emotion |-> "neutral", confidence |-> 0]
Classified(e, c) == [none |-> FALSE, emotion |-> e, confidence |-> c]

\* result.get("emotion", "").lower() followed by emotion_map.get(.., NEUTRAL)
ParseEmotion(field) ==
    IF field = Missing THEN emotion_map(Lower("")) ELSE emotion_map(Lower(field))

\* float(result.get("confidence", 0.0))
ParseConfidence(field) ==
    IF field.tag = Missing THEN 0 ELSE field.val

\* analyze_emotion from the remote answer on: None when the request raises, when
\* no JSON value can be parsed, when the parsed value is falsy, and when
\* the validation raises (.lower() of a null, .get of a non-object, float() of
\* a null or of a word); otherwise the classification
analyze_emotion(resp) ==
    IF resp.kind # "obj" THEN NoResult
    ELSE IF resp.emotion = Null THEN NoResult
    ELSE IF resp.confidence.tag \in {Null, Malformed} THEN NoResult
    ELSE Classified(ParseEmotion(resp.emotion), ParseConfidence(resp.confidence))

NoRecording == "<None>"

\* (mutant) the loop keeps going after a hit: the last candidate found wins
FirstExisting_LastWins(recordings, st) ==
    LET found == {k \in 1..Len(recordings) : recordings[k] \in st}
    IN  IF found = {} THEN NoRecording
        ELSE recordings[CHOOSE k \in found : \A j \in found : j <= k]

RECURSIVE FirstExisting(_, _)
\* the for loop of map_emotion_to_recording over the candidates left
FirstExisting(recordings, st) ==
    IF recordings = <<>> THEN NoRecording
    ELSE IF Head(recordings) \in st THEN Head(recordings)
    ELSE FirstExisting(Tail(recordings), st)

\* (mutant) the store is never asked: the first candidate is returned
map_emotion_to_recording_FirstOnly(emotion, table, st) ==
    LET recordings == IF emotion \in DOMAIN table THEN table[emotion] ELSE <<>>
    IN  IF recordings = <<>> THEN NoRecording ELSE recordings[1]

\* map_emotion_to_recording when every get_recording_path call returns
map_emotion_to_recording(emotion, table, st) ==
    LET recordings == IF emotion \in DOMAIN table THEN table[emotion] ELSE <<>>
    IN  IF recordings = <<>> THEN NoRecording
        ELSE IF FirstExisting(recordings, st) # NoRecording
             THEN FirstExisting(recordings, st)
             ELSE recordings[1]

\* (mutant) the cooldown comparison also rejects at exactly cooldown_seconds
CooldownActive_Inclusive(t, last, cooldown) == t - last <= cooldown

\* current_time - self._last_reaction_time < self.cooldown_seconds
CooldownActive(t, last, cooldown) == t - last < cooldown

\* (mutant) the comparison of the confidence gate is inverted
BelowThreshold_Inverted(confidence, threshold) == confidence > threshold

\* confidence < self.min_confidence
BelowThreshold(confidence, threshold) == confidence < threshold

\* (mutant) the neutral gate compares with a value no result has
IsNeutral_WrongCase(emotion) == emotion = "NEUTRAL"

\* emotion == Emotion.NEUTRAL
IsNeutral(emotion) == emotion = "neutral"

\* ------------------------------------------------------------------- state

VARIABLES
    now,                 \* time.time()
    auto_react,          \* self.auto_react
    min_confidence,      \* self.min_confidence (tenths)
    cooldown_seconds,    \* self.cooldown_seconds
    emotion_to_recording,\* self._emotion_to_recording
    last_reaction_time,  \* self._last_reaction_time
    cooldown_lock,       \* self._cooldown_lock: its holder, or NoHolder
    animation_service,   \* g.animation_service is set
    store,               \* names for which get_recording_path returns a path
    pc,                  \* per thread: where it is in trigger_reaction
    text,                \* per thread: the argument of the call
    current_time,        \* per thread: the local current_time
    result,              \* per thread: the local result
    recording_name,      \* per thread: the local recording_name
    ret,                 \* per thread: how the call ended
    finished_at,         \* per thread: when the call ended
    classifier_calls,    \* per thread: generate_content requests of this call
    dispatched,          \* per thread: dispatch("play", name) calls of this call
    dispatch_raised,     \* per thread: dispatch raised in this call
    entry,               \* per thread: the service's fields when the call began
    response,            \* per thread: what the remote request of the call answered
    dispatched_at,       \* per thread: when the dispatch of the call returned
    gemini_available,    \* GEMINI_AVAILABLE
    api_key_set,         \* os.getenv("GOOGLE_API_KEY") is set
    emotion_service,     \* the global _emotion_service: NoService or TheService
    last_init,           \* the latest init_emotion_service call: its config, what
                         \* the constructor did, how the call ended
    motors_enabled,      \* the agent's motors_enabled attribute, if it has one
    self_animation_service,   \* the agent's animation_service is initialised
    manual_control_override,  \* that attribute of the animation service, if any
    is_sleeping,         \* the agent's is_sleeping
    tool_call,           \* the latest play_recording / party_play_recording call
    last_success_at,     \* when the latest call that returned True ended
    prev_return          \* how and when the latest call taken back ended

config == <<auto_react, min_confidence, cooldown_seconds, emotion_to_recording>>
agent == <<motors_enabled, self_animation_service, manual_control_override,
           is_sleeping, tool_call>>
env == <<animation_service, store, gemini_available, api_key_set, emotion_service,
         last_init, agent>>
locals == <<text, current_time, result, recording_name, ret, finished_at,
            classifier_calls, dispatched, dispatch_raised, entry, response,
            dispatched_at>>
history == <<last_success_at, prev_return>>
vars == <<now, config, env, last_reaction_time, cooldown_lock, pc, locals, history>>

\* how a call ended: not yet, return True, return False, an exception
Running == "running"
RetTrue == "True"
RetFalse == "False"
Raised == "exception"

Never == 0 - 1
NoEntry == [last_reaction_time |-> 0, config |-> <<>>]
\* no request has been answered in this call
NoResponse == [kind |-> "none", emotion |-> Missing, confidence |-> [tag |-> Missing, val |-> 0]]

\* ------------------------------------------------------------------- Init

\* _emotion_service: None, or the instance whose fields the model holds
NoService == "None"
TheService == "instance"

\* no init_emotion_service call has been made
NoInit == [enabled |-> "never", constructed |-> "not tried", returned |-> "nothing"]

\* EmotionService.__init__ with the configuration init_emotion_service passes
ServiceInit ==
    /\ gemini_available = TRUE
    /\ api_key_set = TRUE
    /\ emotion_service = TheService
    /\ last_init = [enabled |-> "true", constructed |-> "ok", returned |-> TheService]
    /\ auto_react \in BOOLEAN
    /\ min_confidence \in MinConfidences
    /\ cooldown_seconds \in {0, DefaultCooldown}
    /\ emotion_to_recording = EmotionToRecording
    /\ last_reaction_time = 0
    /\ cooldown_lock = NoHolder

\* no tool has been called
NoToolCall == [tool |-> "none", recording_name |-> "", is_sleeping |-> FALSE,
               dispatched |-> <<>>, returned |-> "nothing"]

\* an agent with motors and an animation service, awake, no tool called yet
AgentInit ==
    /\ motors_enabled = "True"
    /\ self_animation_service = TRUE
    /\ manual_control_override = "False"
    /\ is_sleeping = FALSE
    /\ tool_call = NoToolCall

\* no thread is inside trigger_reaction and none has been
ThreadsInit ==
    /\ pc = [i \in Procs |-> "idle"]
    /\ text = [i \in Procs |-> ""]
    /\ current_time = [i \in Procs |-> 0]
    /\ result = [i \in Procs |-> NoResult]
    /\ recording_name = [i \in Procs |-> NoRecording]
    /\ ret = [i \in Procs |-> Running]
    /\ finished_at = [i \in Procs |-> Never]
    /\ classifier_calls = [i \in Procs |-> 0]
    /\ dispatched = [i \in Procs |-> <<>>]
    /\ dispatch_raised = [i \in Procs |-> FALSE]
    /\ entry = [i \in Procs |-> NoEntry]
    /\ response = [i \in Procs |-> NoResponse]
    /\ dispatched_at = [i \in Procs |-> Never]
    /\ last_success_at = Never
    /\ prev_return = [ret |-> Running, at |-> Never]

Init ==
    /\ ServiceInit
    /\ now = StartTime
    /\ animation_service \in BOOLEAN
    /\ store \in StoreChoices
    /\ ThreadsInit
    /\ AgentInit

\* ---------------------------------------------------------------- actions

\* a return statement (or an exception leaving trigger_reaction) of thread i
Finish(i, r) ==
    /\ pc' = [pc EXCEPT ![i] = "done"]
    /\ ret' = [ret EXCEPT ![i] = r]
    /\ finished_at' = [finished_at EXCEPT ![i] = now]

Goto(i, label) ==
    /\ pc' = [pc EXCEPT ![i] = label]
    /\ UNCHANGED <<ret, finished_at>>

\* the clock advances
Tick ==
    /\ now < StartTime + MaxTicks
    /\ now' = now + 1
    /\ UNCHANGED <<config, env, last_reaction_time, cooldown_lock, pc, locals, history>>

\* thread i calls trigger_reaction(t): `if not self.auto_react: return False`
Call(i, t) ==
    /\ pc[i] = "idle"
    /\ text' = [text EXCEPT ![i] = t]
    /\ entry' = [entry EXCEPT ![i] =
                    [last_reaction_time |-> last_reaction_time, config |-> config]]
    /\ IF ~auto_react THEN Finish(i, RetFalse) ELSE Goto(i, "acquire_check")
    /\ UNCHANGED <<now, config, env, last_reaction_time, cooldown_lock, current_time,
                   result, recording_name, classifier_calls, dispatched,
                   dispatch_raised, response, dispatched_at, history>>

\* `with self._cooldown_lock:` of the cooldown check
AcquireCheck(i) ==
    /\ pc[i] = "acquire_check"
    /\ cooldown_lock = NoHolder
    /\ cooldown_lock' = i
    /\ Goto(i, "check_cooldown")
    /\ UNCHANGED <<now, config, env, last_reaction_time, locals, history>>

\* (mutant) the check that passes keeps the lock: the rest of the call runs
\* inside the with block
CheckCooldown_KeepsLock(i) ==
    /\ pc[i] = "check_cooldown"
    /\ cooldown_lock = i
    /\ current_time' = [current_time EXCEPT ![i] = now]
    /\ IF CooldownActive(now, last_reaction_time, cooldown_seconds)
       THEN Finish(i, RetFalse) /\ cooldown_lock' = NoHolder
       ELSE Goto(i, "analyze") /\ UNCHANGED cooldown_lock
    /\ UNCHANGED <<now, config, env, last_reaction_time, text, result, recording_name,
                   classifier_calls, dispatched, dispatch_raised, entry, response,
                   dispatched_at, history>>

\* (mutant) the cooldown check stamps last_reaction_time when it rejects
CheckCooldown_StampsOnReject(i) ==
    /\ pc[i] = "check_cooldown"
    /\ cooldown_lock = i
    /\ current_time' = [current_time EXCEPT ![i] = now]
    /\ IF CooldownActive(now, last_reaction_time, cooldown_seconds)
       THEN Finish(i, RetFalse) /\ last_reaction_time' = now
       ELSE Goto(i, "analyze") /\ UNCHANGED last_reaction_time
    /\ cooldown_lock' = NoHolder
    /\ UNCHANGED <<now, config, env, text, result, recording_name,
                   classifier_calls, dispatched, dispatch_raised, entry, response, dispatched_at, history>>

\* the body of the first with block; leaving it releases the lock
CheckCooldown(i) ==
    /\ pc[i] = "check_cooldown"
    /\ cooldown_lock = i
    /\ current_time' = [current_time EXCEPT ![i] = now]
    /\ IF CooldownActive(now, last_reaction_time, cooldown_seconds)
       THEN Finish(i, RetFalse)
       ELSE Goto(i, "analyze")
    /\ cooldown_lock' = NoHolder
    /\ UNCHANGED <<now, config, env, last_reaction_time, text, result, recording_name,
                   classifier_calls, dispatched, dispatch_raised, entry, response, dispatched_at, history>>

\* (mutant) the text is sent to the remote model without the blank check
AnalyzeStart_NoBlankCheck(i) ==
    /\ pc[i] = "analyze"
    /\ Goto(i, "classifying")
    /\ classifier_calls' = [classifier_calls EXCEPT ![i] = @ + 1]
    /\ UNCHANGED <<now, config, env, last_reaction_time, cooldown_lock, text,
                   current_time, result, recording_name, dispatched, dispatch_raised,
                   entry, response, dispatched_at, history>>

\* analyze_emotion up to the remote request: blank text returns None at once,
\* and trigger_reaction returns False on it
AnalyzeStart(i) ==
    /\ pc[i] = "analyze"
    /\ IF IsBlank(text[i])
       THEN /\ Finish(i, RetFalse)
            /\ UNCHANGED classifier_calls
       ELSE /\ Goto(i, "classifying")
            /\ classifier_calls' = [classifier_calls EXCEPT ![i] = @ + 1]
    /\ UNCHANGED <<now, config, env, last_reaction_time, cooldown_lock, text,
                   current_time, result, recording_name, dispatched, dispatch_raised,
                   entry, response, dispatched_at, history>>

\* the remote request ends with resp; analyze_emotion parses it
AnalyzeReturn(i, resp) ==
    /\ pc[i] = "classifying"
    /\ response' = [response EXCEPT ![i] = resp]
    /\ result' = [result EXCEPT ![i] = analyze_emotion(resp)]
    /\ Goto(i, "evaluate")
    /\ UNCHANGED <<now, config, env, last_reaction_time, cooldown_lock, text,
                   current_time, recording_name, classifier_calls, dispatched,
                   dispatch_raised, entry, dispatched_at, history>>

\* the gates on the result: absent, below the threshold, neutral
Evaluate(i) ==
    /\ pc[i] = "evaluate"
    /\ IF result[i].none THEN Finish(i, RetFalse)
       ELSE IF BelowThreshold(result[i].confidence, min_confidence) THEN Finish(i, RetFalse)
       ELSE IF IsNeutral(result[i].emotion) THEN Finish(i, RetFalse)
       ELSE Goto(i, "map")
    /\ UNCHANGED <<now, config, env, last_reaction_time, cooldown_lock, text,
                   current_time, result, recording_name, classifier_calls, dispatched,
                   dispatch_raised, entry, response, dispatched_at, history>>

\* recording_name = self.map_emotion_to_recording(emotion); a get_recording_path
\* that raises ends the call with that exception (nothing catches it)
MapEmotion(i, lookup_raises) ==
    /\ pc[i] = "map"
    /\ IF lookup_raises /\ emotion_to_recording[result[i].emotion] # <<>>
       THEN /\ Finish(i, Raised)
            /\ UNCHANGED recording_name
       ELSE LET name == map_emotion_to_recording(result[i].emotion,
                                                 emotion_to_recording, store)
            IN  /\ recording_name' = [recording_name EXCEPT ![i] = name]
                /\ IF name = NoRecording
                   THEN Finish(i, RetFalse)
                   ELSE Goto(i, "check_recording")
    /\ UNCHANGED <<now, config, env, last_reaction_time, cooldown_lock, text,
                   current_time, result, classifier_calls, dispatched,
                   dispatch_raised, entry, response, dispatched_at, history>>

\* (mutant) the existence check before dispatch is left out
CheckRecording_SkipsExistence(i, lookup_raises) ==
    /\ pc[i] = "check_recording"
    /\ IF ~animation_service THEN Finish(i, RetFalse)
       ELSE Goto(i, "dispatch")
    /\ UNCHANGED <<now, config, env, last_reaction_time, cooldown_lock, text,
                   current_time, result, recording_name, classifier_calls, dispatched,
                   dispatch_raised, entry, response, dispatched_at, history>>

\* `if not g.animation_service` and `if get_recording_path(..) is None`
CheckRecording(i, lookup_raises) ==
    /\ pc[i] = "check_recording"
    /\ IF ~animation_service THEN Finish(i, RetFalse)
       ELSE IF lookup_raises THEN Finish(i, Raised)
       ELSE IF recording_name[i] \notin store THEN Finish(i, RetFalse)
       ELSE Goto(i, "dispatch")
    /\ UNCHANGED <<now, config, env, last_reaction_time, cooldown_lock, text,
                   current_time, result, recording_name, classifier_calls, dispatched,
                   dispatch_raised, entry, response, dispatched_at, history>>

\* g.animation_service.dispatch("play", recording_name) returns
DispatchOk(i) ==
    /\ pc[i] = "dispatch"
    /\ dispatched' = [dispatched EXCEPT ![i] = Append(@, <<"play", recording_name[i]>>)]
    /\ dispatched_at' = [dispatched_at EXCEPT ![i] = now]
    /\ Goto(i, "acquire_update")
    /\ UNCHANGED <<now, config, env, last_reaction_time, cooldown_lock, text,
                   current_time, result, recording_name, classifier_calls,
                   dispatch_raised, entry, response, history>>

\* (mutant) the cooldown is stamped before dispatch is known to have worked
DispatchRaises_UpdatesCooldown(i) ==
    /\ pc[i] = "dispatch"
    /\ dispatch_raised' = [dispatch_raised EXCEPT ![i] = TRUE]
    /\ last_reaction_time' = current_time[i]
    /\ Finish(i, RetFalse)
    /\ UNCHANGED <<now, config, env, cooldown_lock, text,
                   current_time, result, recording_name, classifier_calls,
                   dispatched, entry, response, dispatched_at, history>>

\* g.animation_service.dispatch raises: `except Exception: return False`
DispatchRaises(i) ==
    /\ pc[i] = "dispatch"
    /\ dispatch_raised' = [dispatch_raised EXCEPT ![i] = TRUE]
    /\ Finish(i, RetFalse)
    /\ UNCHANGED <<now, config, env, last_reaction_time, cooldown_lock, text,
                   current_time, result, recording_name, classifier_calls,
                   dispatched, entry, response, dispatched_at, history>>

\* `with self._cooldown_lock:` of the update
AcquireUpdate(i) ==
    /\ pc[i] = "acquire_update"
    /\ cooldown_lock = NoHolder
    /\ cooldown_lock' = i
    /\ Goto(i, "update")
    /\ UNCHANGED <<now, config, env, last_reaction_time, locals, history>>

\* (mutant) the call falls off the end of the try block without `return True`
UpdateCooldown_ReturnsFalse(i) ==
    /\ pc[i] = "update"
    /\ cooldown_lock = i
    /\ last_reaction_time' = current_time[i]
    /\ cooldown_lock' = NoHolder
    /\ Finish(i, RetFalse)
    /\ UNCHANGED <<now, config, env, text, current_time, result, recording_name,
                   classifier_calls, dispatched, dispatch_raised, entry, response, dispatched_at, history>>

\* self._last_reaction_time = current_time; the lock is released; return True
UpdateCooldown(i) ==
    /\ pc[i] = "update"
    /\ cooldown_lock = i
    /\ last_reaction_time' = current_time[i]
    /\ cooldown_lock' = NoHolder
    /\ Finish(i, RetTrue)
    /\ UNCHANGED <<now, config, env, text, current_time, result, recording_name,
                   classifier_calls, dispatched, dispatch_raised, entry, response, dispatched_at, history>>

\* the caller of thread i takes the result; the locals of the call are gone
Return(i) ==
    /\ pc[i] = "done"
    /\ prev_return' = [ret |-> ret[i], at |-> finished_at[i]]
    /\ last_success_at' = IF ret[i] = RetTrue THEN finished_at[i] ELSE last_success_at
    /\ pc' = [pc EXCEPT ![i] = "idle"]
    /\ text' = [text EXCEPT ![i] = ""]
    /\ current_time' = [current_time EXCEPT ![i] = 0]
    /\ result' = [result EXCEPT ![i] = NoResult]
    /\ recording_name' = [recording_name EXCEPT ![i] = NoRecording]
    /\ ret' = [ret EXCEPT ![i] = Running]
    /\ finished_at' = [finished_at EXCEPT ![i] = Never]
    /\ classifier_calls' = [classifier_calls EXCEPT ![i] = 0]
    /\ dispatched' = [dispatched EXCEPT ![i] = <<>>]
    /\ dispatch_raised' = [dispatch_raised EXCEPT ![i] = FALSE]
    /\ entry' = [entry EXCEPT ![i] = NoEntry]
    /\ response' = [response EXCEPT ![i] = NoResponse]
    /\ dispatched_at' = [dispatched_at EXCEPT ![i] = Never]
    /\ UNCHANGED <<now, config, env, last_reaction_time, cooldown_lock>>

\* one step of thread i inside trigger_reaction
Step(i) ==
    \/ AcquireCheck(i)
    \/ CheckCooldown(i)
    \/ AnalyzeStart(i)
    \/ \E resp \in Responses : AnalyzeReturn(i, resp)
    \/ Evaluate(i)
    \/ \E lookup_raises \in BOOLEAN : MapEmotion(i, lookup_raises)
    \/ \E lookup_raises \in BOOLEAN : CheckRecording(i, lookup_raises)
    \/ DispatchOk(i)
    \/ DispatchRaises(i)
    \/ AcquireUpdate(i)
    \/ UpdateCooldown(i)
    \/ Return(i)

\* no other thread is inside trigger_reaction or holds an unreturned result
Alone(i) == \A j \in Procs \ {i} : pc[j] = "idle"

\* calls one after the other: a call begins only when no other is in progress
SeqCall(i, t) == Alone(i) /\ Call(i, t)

Next ==
    \/ Tick
    \/ \E i \in Procs, t \in Texts : SeqCall(i, t)
    \/ \E i \in Procs : Step(i)

Spec == Init /\ [][Next]_vars

\* ------------------------------------------------- concurrent invocations

\* the answers and texts fed to overlapping calls: a failed request, a
\* qualifying answer, one below the threshold, a neutral one, and one whose
\* recordings the store lacks
ConcResponses ==
    {r \in Responses :
        \/ r.kind = "raise"
        \/ /\ r.kind = "obj"
           /\ r.confidence.tag = "number"
           /\ <<r.emotion, r.confidence.val>> \in
                 {<<"happy", 9>>, <<"happy", 6>>, <<"neutral", 9>>, <<"sad", 7>>}}
ConcTexts == {"", "hello"}

ConcInit ==
    /\ Init
    /\ auto_react
    /\ min_confidence = DefaultMinConfidence
    /\ cooldown_seconds = DefaultCooldown
    /\ animation_service
    /\ store = {"happy_wiggle"}

ConcStep(i) ==
    \/ AcquireCheck(i)
    \/ CheckCooldown(i)
    \/ AnalyzeStart(i)
    \/ \E resp \in ConcResponses : AnalyzeReturn(i, resp)
    \/ Evaluate(i)
    \/ \E lookup_raises \in BOOLEAN : MapEmotion(i, lookup_raises)
    \/ \E lookup_raises \in BOOLEAN : CheckRecording(i, lookup_raises)
    \/ DispatchOk(i)
    \/ DispatchRaises(i)
    \/ AcquireUpdate(i)
    \/ UpdateCooldown(i)
    \/ Return(i)

ConcNext ==
    \/ Tick
    \/ \E i \in Procs, t \in ConcTexts : Call(i, t)
    \/ \E i \in Procs : ConcStep(i)

ConcSpec == ConcInit /\ [][ConcNext]_vars

\* ------------------------------------------------------------------ claims

\* thread i has done the cooldown check of its call, and the check let it pass
\* or rejected it (current_time is set by the check alone)
Checked(i) == pc[i] \notin {"idle", "acquire_check", "check_cooldown"} /\ current_time[i] # 0

\* the candidates configured for the emotion thread i's classifier returned
Candidates(i) == emotion_to_recording[result[i].emotion]

\* the classifier of thread i's call returned a result
HasResult(i) == ~result[i].none

\* thread i's call never reached the Animation Dispatcher
NoDispatchCall(i) ==
    /\ dispatched[i] = <<>>
    /\ ~dispatch_raised[i]
    /\ pc[i] \notin {"dispatch", "acquire_update", "update"}

\* C1: a call whose cooldown check happens less than cooldown_seconds after the
\* latest call that returned True ended returns False and sends no classifier
\* request.
C1_RejectedWithinCooldownOfSuccess ==
    \A i \in Procs :
        (/\ Checked(i)
         /\ last_success_at # Never
         /\ current_time[i] - last_success_at < cooldown_seconds)
        => /\ classifier_calls[i] = 0
           /\ pc[i] = "done" => ret[i] = RetFalse

\* C2: with cooldown_seconds > 0, a call that starts at the very time the
\* previous call returned True does not return True as well (it returns False
\* unless a lookup raised).
C2_SecondOfTwoReturnsFalse ==
    \A i \in Procs :
        (/\ pc[i] = "done"
         /\ Checked(i)
         /\ cooldown_seconds > 0
         /\ prev_return.ret = RetTrue
         /\ current_time[i] = prev_return.at
         /\ ret[i] # Raised)
        => ret[i] = RetFalse

\* C3: once the classifier result of a call has a confidence below
\* min_confidence, the call goes no further than the confidence gate: it never
\* reaches the dispatcher and it ends returning False.
C3_LowConfidenceNeverDispatches ==
    \A i \in Procs :
        (HasResult(i) /\ result[i].confidence < min_confidence)
        => /\ NoDispatchCall(i)
           /\ pc[i] \in {"evaluate", "done"}
           /\ pc[i] = "done" => ret[i] = RetFalse

\* a call ended False on a low confidence although everything else qualified
C3_Witness ==
    \E i \in Procs :
        /\ pc[i] = "done" /\ ret[i] = RetFalse
        /\ HasResult(i) /\ result[i].confidence < min_confidence
        /\ result[i].emotion # "neutral"
        /\ FirstExisting(Candidates(i), store) # NoRecording
        /\ animation_service

\* C4: once the classifier result of a call is neutral, whatever its confidence,
\* the call never reaches the dispatcher and ends returning False.
C4_NeutralNeverDispatches ==
    \A i \in Procs :
        (HasResult(i) /\ result[i].emotion = "neutral")
        => /\ NoDispatchCall(i)
           /\ pc[i] \in {"evaluate", "done"}
           /\ pc[i] = "done" => ret[i] = RetFalse

\* a neutral result at or above the threshold, with "idle" in the store, ended False
C4_Witness ==
    \E i \in Procs :
        /\ pc[i] = "done" /\ ret[i] = RetFalse
        /\ HasResult(i) /\ result[i].emotion = "neutral"
        /\ result[i].confidence >= min_confidence
        /\ Candidates(i) = <<"idle">> /\ "idle" \in store
        /\ animation_service

\* the conditions C5 lists, for a call of thread i that has ended
Qualified(i) ==
    /\ pc[i] = "done"
    /\ entry[i].config[1]
    /\ Checked(i)
    /\ ~CooldownActive(current_time[i], entry[i].last_reaction_time, cooldown_seconds)
    /\ HasResult(i)
    /\ result[i].emotion # "neutral"
    /\ result[i].confidence >= min_confidence
    /\ \E k \in 1..Len(Candidates(i)) : Candidates(i)[k] \in store
    /\ animation_service
    /\ ~dispatch_raised[i]
    /\ ret[i] # Raised

\* C5: a call with auto_react on, the cooldown elapsed, a non-neutral result at
\* or above min_confidence, a candidate in the store, the animation service
\* present and no raise returns True, has dispatched exactly once, ("play", the
\* first candidate the store holds), and has set last_reaction_time.
C5_QualifiedCallReacts ==
    \A i \in Procs :
        Qualified(i)
        => /\ ret[i] = RetTrue
           /\ dispatched[i] = << <<"play", FirstExisting(Candidates(i), store)>> >>
           /\ last_reaction_time = current_time[i]
           /\ last_reaction_time >= entry[i].last_reaction_time

\* a qualifying call at exactly min_confidence whose first candidate is missing
C5_Witness ==
    \E i \in Procs :
        /\ Qualified(i)
        /\ result[i].confidence = min_confidence
        /\ Candidates(i)[1] \notin store
        /\ ret[i] = RetTrue
        /\ last_reaction_time # entry[i].last_reaction_time

\* C6: a call in which dispatch raised has returned False and
\* last_reaction_time still has the value it had when the call began.
C6_DispatchFailureKeepsCooldown ==
    \A i \in Procs :
        dispatch_raised[i]
        => /\ pc[i] = "done"
           /\ ret[i] = RetFalse
           /\ last_reaction_time = entry[i].last_reaction_time

\* dispatch raised in a call made after an earlier reaction
C6_Witness ==
    \E i \in Procs :
        /\ dispatch_raised[i] /\ pc[i] = "done"
        /\ entry[i].last_reaction_time > 0
        /\ current_time[i] > entry[i].last_reaction_time

\* C7: a call that has ended returned True exactly when it issued a dispatch
\* that did not raise; a call that returned False or raised issued none.
C7_TrueIffDispatched ==
    \A i \in Procs :
        pc[i] = "done"
        => /\ (ret[i] = RetTrue) <=> (Len(dispatched[i]) = 1)
           /\ ret[i] # RetTrue => dispatched[i] = <<>>

\* a call returned True after its one dispatch, right after a call that
\* returned False had been taken back
C7_Witness ==
    \E i \in Procs :
        /\ pc[i] = "done" /\ ret[i] = RetTrue /\ Len(dispatched[i]) = 1
        /\ prev_return.ret = RetFalse

\* C8: no call ends with an exception reaching the caller.
C8_NothingPropagates ==
    \A i \in Procs : ret[i] # Raised

\* C9: no step lowers last_reaction_time, whatever the interleaving of the
\* calls of the threads.
C9_LastReactionTimeNeverDecreases ==
    [][last_reaction_time' >= last_reaction_time]_vars

\* C10: a call that returned False has left last_reaction_time as it was when
\* the call began, and during and after a call auto_react, min_confidence,
\* cooldown_seconds and the emotion-to-recording map are as they were.
C10_FalseCallsChangeNothing ==
    \A i \in Procs :
        pc[i] # "idle"
        => /\ config = entry[i].config
           /\ (pc[i] = "done" /\ ret[i] = RetFalse)
              => last_reaction_time = entry[i].last_reaction_time

\* calls rejected after an earlier reaction: by the cooldown gate, and by a
\* later gate once the cooldown had elapsed
C10_Witness ==
    \E i \in Procs :
        /\ pc[i] = "done" /\ ret[i] = RetFalse
        /\ entry[i].last_reaction_time > 0
        /\ HasResult(i)

AbsDiff(a, b) == IF a >= b THEN a - b ELSE b - a

\* C11: the step that reads last_reaction_time (the cooldown check) and every
\* step that changes it are taken by the thread holding the cooldown lock, and
\* no thread holds the lock once its classifier request or its dispatch is in
\* progress.
C11_LockOnlyAroundTheField ==
    [][/\ \A i \in Procs :
            (pc[i] = "check_cooldown" /\ pc'[i] # "check_cooldown") => cooldown_lock = i
       /\ last_reaction_time' # last_reaction_time
            => (cooldown_lock # NoHolder /\ pc[cooldown_lock] = "update")
       /\ \A i \in Procs :
            pc'[i] \in {"analyze", "classifying", "dispatch"} => cooldown_lock' # i
      ]_vars

\* one thread waits for its classifier while another holds the lock for its check
C11_Witness ==
    \E i, j \in Procs :
        /\ i # j
        /\ pc[i] = "classifying"
        /\ pc[j] = "check_cooldown" /\ cooldown_lock = j

\* C12: the cooldown check of a call passes exactly when cooldown_seconds have
\* passed since the stamp stored in last_reaction_time, whatever other calls
\* are in flight; so two overlapping calls can both pass it, both classify, both
\* dispatch and both return True within one cooldown window (the witness).
C12_CheckSeesOnlyTheStoredStamp ==
    [][\A i \in Procs :
          (pc[i] = "check_cooldown" /\ pc'[i] # "check_cooldown")
          => (pc'[i] = "analyze" <=> now - last_reaction_time >= cooldown_seconds)
      ]_vars

\* two calls whose checks, dispatches and returns lie less than cooldown_seconds
\* apart both classified, both dispatched and both returned True
C12_Witness ==
    \E i, j \in Procs :
        /\ i # j
        /\ cooldown_seconds > 0
        /\ pc[i] = "done" /\ ret[i] = RetTrue
        /\ pc[j] = "done" /\ ret[j] = RetTrue
        /\ classifier_calls[i] = 1 /\ classifier_calls[j] = 1
        /\ Len(dispatched[i]) = 1 /\ Len(dispatched[j]) = 1
        /\ AbsDiff(current_time[i], current_time[j]) < cooldown_seconds
        /\ AbsDiff(dispatched_at[i], dispatched_at[j]) < cooldown_seconds
        /\ AbsDiff(finished_at[i], finished_at[j]) < cooldown_seconds

\* ------------------------------------------------ the mapping on any store

\* every recording name the table mentions
AllRecordings ==
    UNION {{EmotionToRecording[e][k] : k \in 1..Len(EmotionToRecording[e])} : e \in Emotions}

\* one confident answer for each Emotion
MapResponses ==
    {r \in [kind : {"obj"}, emotion : Emotions, confidence : ConfFields] :
        r.confidence = [tag |-> "number", val |-> 9]}

\* the service with its defaults, over any set of recordings in the store
MapInit ==
    /\ ServiceInit
    /\ auto_react
    /\ min_confidence = DefaultMinConfidence
    /\ cooldown_seconds = DefaultCooldown
    /\ now = StartTime
    /\ animation_service = TRUE
    /\ store \in SUBSET AllRecordings
    /\ ThreadsInit
    /\ AgentInit

\* calls one after the other, followed as far as map_emotion_to_recording
MapNext ==
    \/ \E i \in Procs : SeqCall(i, "hello")
    \/ \E i \in Procs : AcquireCheck(i)
    \/ \E i \in Procs : CheckCooldown(i)
    \/ \E i \in Procs : AnalyzeStart(i)
    \/ \E i \in Procs, resp \in MapResponses : AnalyzeReturn(i, resp)
    \/ \E i \in Procs : Evaluate(i)
    \/ \E i \in Procs, lookup_raises \in BOOLEAN : MapEmotion(i, lookup_raises)
    \/ \E i \in Procs : Return(i)

MapSpec == MapInit /\ [][MapNext]_vars

\* the earliest candidate of the list that the store holds
EarliestPresent(recordings, st) ==
    recordings[CHOOSE k \in 1..Len(recordings) :
                  /\ recordings[k] \in st
                  /\ \A j \in 1..(k - 1) : recordings[j] \notin st]

\* C13: for every emotion and every store holding at least one of its
\* candidates, the name map_emotion_to_recording returned is the earliest
\* candidate, in the configured order, that the store holds.
C13_MapsToEarliestPresent ==
    \A i \in Procs :
        (/\ pc[i] = "check_recording"
         /\ \E k \in 1..Len(Candidates(i)) : Candidates(i)[k] \in store)
        => recording_name[i] = EarliestPresent(Candidates(i), store)

\* excited with only happy_wiggle in the store was mapped to happy_wiggle
C13_Witness ==
    \E i \in Procs :
        /\ pc[i] = "check_recording"
        /\ result[i].emotion = "excited"
        /\ store = {"happy_wiggle"}
        /\ recording_name[i] = "happy_wiggle"

\* the result of thread i's call passed the confidence and the neutral gate
PassedGates(i) ==
    /\ HasResult(i)
    /\ result[i].confidence >= min_confidence
    /\ result[i].emotion # "neutral"

\* the mapping step of thread i's call is over
AfterMapping(i) ==
    pc[i] \in {"check_recording", "dispatch", "acquire_update", "update", "done"}

\* C14: once the mapping step of a call that passed the gates is over, the
\* mapping has returned a candidate of the emotion, also when a store lookup
\* raised during it.
C14_MappingSurvivesStoreErrors ==
    \A i \in Procs :
        (PassedGates(i) /\ AfterMapping(i))
        => \E k \in 1..Len(Candidates(i)) : recording_name[i] = Candidates(i)[k]

\* C15: when the store holds none of the candidates of the classified emotion,
\* the call never reaches the dispatcher, and it returns False (unless a store
\* lookup raised, when it ends with that exception).
C15_UnresolvedNameNeverDispatched ==
    \A i \in Procs :
        (HasResult(i) /\ \A k \in 1..Len(Candidates(i)) : Candidates(i)[k] \notin store)
        => /\ NoDispatchCall(i)
           /\ (pc[i] = "done" /\ ret[i] # Raised) => ret[i] = RetFalse

\* a call that passed every gate, fell back to the first candidate and was
\* rejected by the existence check
C15_Witness ==
    \E i \in Procs :
        /\ pc[i] = "done" /\ ret[i] = RetFalse
        /\ PassedGates(i)
        /\ animation_service
        /\ \A k \in 1..Len(Candidates(i)) : Candidates(i)[k] \notin store
        /\ recording_name[i] = Candidates(i)[1]
        /\ store # {}

\* a response C16 calls malformed: no JSON object in it, the empty object, or
\* an object whose emotion field is missing, null or no label of the table
MalformedResponse(r) ==
    \/ r.kind \in {"nojson", "array", "empty"}
    \/ /\ r.kind = "obj"
       /\ \/ r.emotion \in {Missing, Null}
          \/ Lower(r.emotion) \notin EmotionMapKeys

\* C16: after a malformed response the result is absent or neutral, whatever
\* confidence the response carries; the call goes no further than the gates,
\* never reaches the dispatcher and returns False.
C16_MalformedResponseNeverDispatches ==
    \A i \in Procs :
        MalformedResponse(response[i])
        => /\ result[i].none \/ result[i].emotion = "neutral"
           /\ NoDispatchCall(i)
           /\ pc[i] \in {"evaluate", "done"}
           /\ pc[i] = "done" => ret[i] = RetFalse

\* an unknown label with a high confidence, with "idle" in the store, ended False
C16_Witness ==
    \E i \in Procs :
        /\ pc[i] = "done" /\ ret[i] = RetFalse
        /\ response[i].kind = "obj" /\ response[i].emotion = "bogus"
        /\ response[i].confidence = [tag |-> "number", val |-> 9]
        /\ min_confidence <= 9
        /\ animation_service /\ "idle" \in store /\ "happy_wiggle" \in store

\* thread i's call has called the dispatcher
DispatchCalled(i) ==
    \/ pc[i] \in {"dispatch", "acquire_update", "update"}
    \/ dispatched[i] # <<>>
    \/ dispatch_raised[i]

\* C18: a call sends at most one classifier request, and only with auto_react
\* on, the cooldown check passed and a text that is not blank; it looks a
\* recording up only after the confidence and the neutral gate passed; it calls
\* the dispatcher only after the lookup found the recording.
C18_GatesInOrder ==
    \A i \in Procs :
        /\ classifier_calls[i] <= 1
        /\ classifier_calls[i] = 1
            => /\ entry[i].config[1]
               /\ Checked(i)
               /\ current_time[i] - entry[i].last_reaction_time >= cooldown_seconds
               /\ ~IsBlank(text[i])
        /\ (recording_name[i] # NoRecording \/ ret[i] = Raised)
            => (classifier_calls[i] = 1 /\ PassedGates(i))
        /\ DispatchCalled(i)
            => (PassedGates(i) /\ animation_service /\ recording_name[i] \in store)

\* a call went through every gate, in a later window than an earlier reaction
C18_Witness ==
    \E i \in Procs :
        /\ pc[i] = "done" /\ ret[i] = RetTrue
        /\ classifier_calls[i] = 1
        /\ entry[i].last_reaction_time > 0
        /\ recording_name[i] \in store

\* C19: after a call returned True, last_reaction_time is not earlier than the
\* time at which the dispatch of that call happened.
C19_StampNotBeforeDispatch ==
    \A i \in Procs :
        (pc[i] = "done" /\ ret[i] = RetTrue) => last_reaction_time >= dispatched_at[i]

\* C20: when the response is an object whose confidence field is missing or
\* malformed (and whose emotion field is not null), analyze_emotion returns a
\* result with confidence 0 and the emotion read from the response.
C20_BadConfidenceBecomesZero ==
    \A i \in Procs :
        (/\ response[i].kind = "obj"
         /\ response[i].emotion # Null
         /\ response[i].confidence.tag \in {Missing, Malformed})
        => /\ HasResult(i)
           /\ result[i].confidence = 0
           /\ result[i].emotion = ParseEmotion(response[i].emotion)

\* ------------------------------------------------ the global service instance

\* the configurations handed to init_emotion_service: the "emotion" section
\* without "enabled" (or absent), with enabled false, with enabled true
InitConfigs ==
    [enabled : {"missing", "false", "true"},
     auto_react : BOOLEAN,
     min_confidence : MinConfidences,
     cooldown_seconds : {0, DefaultCooldown}]

\* EmotionService.__init__ raises: the package is missing, or the API key is
ConstructorRaises == ~gemini_available \/ ~api_key_set

\* (mutant) a failed construction leaves the global as it was
init_emotion_service_KeepsGlobal(cfg) ==
    /\ IF cfg.enabled # "true"
       THEN /\ last_init' = [enabled |-> cfg.enabled, constructed |-> "not tried",
                             returned |-> NoService]
            /\ UNCHANGED <<emotion_service, config, last_reaction_time, cooldown_lock>>
       ELSE IF ConstructorRaises
       THEN /\ last_init' = [enabled |-> cfg.enabled, constructed |-> "raised",
                             returned |-> NoService]
            /\ UNCHANGED <<emotion_service, config, last_reaction_time, cooldown_lock>>
       ELSE /\ last_init' = [enabled |-> cfg.enabled, constructed |-> "ok",
                             returned |-> TheService]
            /\ emotion_service' = TheService
            /\ auto_react' = cfg.auto_react
            /\ min_confidence' = cfg.min_confidence
            /\ cooldown_seconds' = cfg.cooldown_seconds
            /\ emotion_to_recording' = EmotionToRecording
            /\ last_reaction_time' = 0
            /\ cooldown_lock' = NoHolder
    /\ UNCHANGED <<now, animation_service, store, gemini_available, api_key_set, agent,
                   pc, locals, history>>

\* init_emotion_service(config): a section that is not enabled returns None at
\* once; a constructor that raises is logged, the global is set to None and
\* None is returned; otherwise the new instance becomes the global
init_emotion_service(cfg) ==
    /\ IF cfg.enabled # "true"
       THEN /\ last_init' = [enabled |-> cfg.enabled, constructed |-> "not tried",
                             returned |-> NoService]
            /\ UNCHANGED <<emotion_service, config, last_reaction_time, cooldown_lock>>
       ELSE IF ConstructorRaises
       THEN /\ last_init' = [enabled |-> cfg.enabled, constructed |-> "raised",
                             returned |-> NoService]
            /\ emotion_service' = NoService
            /\ UNCHANGED <<config, last_reaction_time, cooldown_lock>>
       ELSE /\ last_init' = [enabled |-> cfg.enabled, constructed |-> "ok",
                             returned |-> TheService]
            /\ emotion_service' = TheService
            /\ auto_react' = cfg.auto_react
            /\ min_confidence' = cfg.min_confidence
            /\ cooldown_seconds' = cfg.cooldown_seconds
            /\ emotion_to_recording' = EmotionToRecording
            /\ last_reaction_time' = 0
            /\ cooldown_lock' = NoHolder
    /\ UNCHANGED <<now, animation_service, store, gemini_available, api_key_set, agent,
                   pc, locals, history>>

\* get_emotion_service()
get_emotion_service == emotion_service

\* the process environment gains or loses GOOGLE_API_KEY
ChangeEnvironment ==
    /\ api_key_set' = ~api_key_set
    /\ UNCHANGED <<now, config, animation_service, store, gemini_available,
                   emotion_service, last_init, agent, last_reaction_time, cooldown_lock,
                   pc, locals, history>>

\* the module has been imported and init_emotion_service has not been called;
\* the fields of the instance to come hold the defaults of __init__
ModuleInit ==
    /\ gemini_available \in BOOLEAN
    /\ api_key_set \in BOOLEAN
    /\ emotion_service = NoService
    /\ last_init = NoInit
    /\ auto_react = TRUE
    /\ min_confidence = DefaultMinConfidence
    /\ cooldown_seconds = DefaultCooldown
    /\ emotion_to_recording = EmotionToRecording
    /\ last_reaction_time = 0
    /\ cooldown_lock = NoHolder
    /\ now = StartTime
    /\ animation_service = FALSE
    /\ store = {}
    /\ ThreadsInit
    /\ AgentInit

InitNext ==
    \/ \E cfg \in InitConfigs : init_emotion_service(cfg)
    \/ ChangeEnvironment

InitSpec == ModuleInit /\ [][InitNext]_vars

\* C17 (as claimed): an init_emotion_service call whose constructor raised ends
\* with that error reaching its caller, and get_emotion_service returns None.
C17_ConstructionFailurePropagates ==
    last_init.constructed = "raised"
    => (last_init.returned = Raised /\ get_emotion_service = NoService)

\* C17 (amended): the constructor raises when the package or the API key is
\* missing; init_emotion_service absorbs that error: the call returns None, and
\* get_emotion_service returns None afterwards, also when an earlier call had
\* installed an instance.
C17_ConstructionFailureGivesNoService ==
    last_init.constructed = "raised"
    => (last_init.returned = NoService /\ get_emotion_service = NoService)

\* a construction failed for want of the API key, after an earlier call had
\* built an instance (auto_react False is a field only a built instance has)
C17_Witness ==
    /\ last_init.constructed = "raised"
    /\ gemini_available /\ ~api_key_set
    /\ ~auto_react
    /\ get_emotion_service = NoService

\* ------------------------------------------------------------ termination

\* every thread inside trigger_reaction keeps running: its classifier request
\* and its dispatch come back, and a thread waiting at `with self._cooldown_lock`
\* gets the lock when the lock is free again and again
Fairness ==
    \A i \in Procs :
        /\ WF_vars(ConcStep(i))
        /\ SF_vars(AcquireCheck(i))
        /\ SF_vars(AcquireUpdate(i))

\* the clock of the termination runs advances LiveTicks times
LiveTicks == 1

LiveTick == now < StartTime + LiveTicks /\ Tick

LiveNext ==
    \/ LiveTick
    \/ \E i \in Procs, t \in ConcTexts : Call(i, t)
    \/ \E i \in Procs : ConcStep(i)

LiveSpec == ConcInit /\ [][LiveNext]_vars /\ Fairness

\* thread i is inside trigger_reaction
InFlight(i) == pc[i] \notin {"idle", "done"}

\* every call that has begun comes to its end
EveryCallTerminates ==
    \A i \in Procs : InFlight(i) ~> (pc[i] = "done")

\* a thread outside trigger_reaction does not hold the cooldown lock
LockReleasedAtEnd ==
    \A i \in Procs : ~InFlight(i) => cooldown_lock # i

\* C21: every call that has begun ends, its end is Reacted (True) or
\* Suppressed (False), and at its end it does not hold the cooldown lock,
\* whatever the interleaving with the calls of the other thread.
C21_EndsReactedOrSuppressed ==
    /\ EveryCallTerminates
    /\ [](\A i \in Procs : pc[i] = "done" => ret[i] \in {RetTrue, RetFalse})
    /\ []LockReleasedAtEnd

\* C22: once init_emotion_service has been called, get_emotion_service returns
\* an instance exactly when the latest init_emotion_service call returned one.
C22_GetMatchesLatestInit ==
    last_init.enabled # "never"
    => (get_emotion_service = TheService <=> last_init.returned = TheService)

\* ------------------------------------------------------ the recording tools

\* an attribute that may be absent from its object
AttrValues == {Missing, "True", "False"}

\* getattr(obj, name, default), as a truth value
GetAttr(attr, default) == IF attr = Missing THEN default ELSE attr = "True"

\* the names handed to the tools
RecordingNames == {"sleep", "Sleep", "excited"}

\* what a tool call hands back
Headless == "Movement is not available"
NoAnimation == "Animation is not available"
Silent == ""
Started == "Started playing recording"
ErrorPlaying == "Error playing recording"

\* AnimationFunctions._check_animation_enabled: an error message, or None
NoError == "None"
check_animation_enabled ==
    IF ~GetAttr(motors_enabled, TRUE) THEN Headless
    ELSE IF ~self_animation_service THEN NoAnimation
    ELSE NoError

\* (mutant) the manual control override is not looked at
PlayRecordingOutcome_IgnoresOverride(name, dispatch_raises) ==
    IF check_animation_enabled # NoError
    THEN [dispatched |-> <<>>, returned |-> check_animation_enabled]
    ELSE IF is_sleeping /\ name # "sleep"
    THEN [dispatched |-> <<>>, returned |-> Silent]
    ELSE [dispatched |-> <<"play", name>>,
          returned |-> IF dispatch_raises THEN ErrorPlaying ELSE Started]

\* the body of play_recording: the calls it makes to dispatch and its result
PlayRecordingOutcome(name, dispatch_raises) ==
    IF check_animation_enabled # NoError
    THEN [dispatched |-> <<>>, returned |-> check_animation_enabled]
    ELSE IF self_animation_service /\ GetAttr(manual_control_override, FALSE)
    THEN [dispatched |-> <<>>, returned |-> Silent]
    ELSE IF is_sleeping /\ name # "sleep"
    THEN [dispatched |-> <<>>, returned |-> Silent]
    ELSE [dispatched |-> <<"play", name>>,
          returned |-> IF dispatch_raises THEN ErrorPlaying ELSE Started]

\* what a call leaves behind: the tool, its argument, the is_sleeping it logged,
\* its dispatch and its result
ToolRecord(tool, name, dispatch_raises) ==
    [tool |-> tool, recording_name |-> name, is_sleeping |-> is_sleeping,
     dispatched |-> PlayRecordingOutcome(name, dispatch_raises).dispatched,
     returned |-> PlayRecordingOutcome(name, dispatch_raises).returned]

\* play_recording(recording_name)
play_recording(name, dispatch_raises) ==
    /\ tool_call' = ToolRecord("play_recording", name, dispatch_raises)
    /\ UNCHANGED <<now, config, animation_service, store, gemini_available, api_key_set,
                   emotion_service, last_init, motors_enabled, self_animation_service,
                   manual_control_override, is_sleeping, last_reaction_time,
                   cooldown_lock, pc, locals, history>>

\* party_play_recording(recording_name): play_recording and its result
party_play_recording(name, dispatch_raises) ==
    /\ tool_call' = ToolRecord("party_play_recording", name, dispatch_raises)
    /\ UNCHANGED <<now, config, animation_service, store, gemini_available, api_key_set,
                   emotion_service, last_init, motors_enabled, self_animation_service,
                   manual_control_override, is_sleeping, last_reaction_time,
                   cooldown_lock, pc, locals, history>>

\* the lamp falls asleep or wakes up
SetSleeping ==
    /\ is_sleeping' = ~is_sleeping
    /\ UNCHANGED <<now, config, animation_service, store, gemini_available, api_key_set,
                   emotion_service, last_init, motors_enabled, self_animation_service,
                   manual_control_override, tool_call, last_reaction_time,
                   cooldown_lock, pc, locals, history>>

\* manual control is taken or given back
SetManualControl(v) ==
    /\ self_animation_service
    /\ v # manual_control_override
    /\ manual_control_override' = v
    /\ UNCHANGED <<now, config, animation_service, store, gemini_available, api_key_set,
                   emotion_service, last_init, motors_enabled, self_animation_service,
                   is_sleeping, tool_call, last_reaction_time, cooldown_lock, pc,
                   locals, history>>

\* an agent of any make, no tool called yet
ToolInit ==
    /\ ServiceInit
    /\ now = StartTime
    /\ animation_service = TRUE
    /\ store = {}
    /\ ThreadsInit
    /\ motors_enabled \in AttrValues
    /\ self_animation_service \in BOOLEAN
    /\ manual_control_override \in AttrValues
    /\ is_sleeping \in BOOLEAN
    /\ tool_call = NoToolCall

ToolNext ==
    \/ \E name \in RecordingNames, dispatch_raises \in BOOLEAN :
          play_recording(name, dispatch_raises)
    \/ \E name \in RecordingNames, dispatch_raises \in BOOLEAN :
          party_play_recording(name, dispatch_raises)
    \/ SetSleeping
    \/ \E v \in {"True", "False"} : SetManualControl(v)

ToolSpec == ToolInit /\ [][ToolNext]_vars

\* the state in which the claim lets recording `name` be dispatched
MayPlay(name) ==
    /\ motors_enabled # "False"
    /\ self_animation_service
    /\ manual_control_override # "True"
    /\ ~is_sleeping \/ name = "sleep"

\* C23: a call of play_recording or party_play_recording dispatches
\* ("play", recording_name) only if motors are enabled, the animation service
\* is initialised, manual control override is not active and the lamp is awake
\* or the recording is "sleep"; in every other state it returns without a
\* dispatch.
C23_PlaysOnlyWhenAllowed ==
    [][tool_call' # tool_call
       => LET name == tool_call'.recording_name
          IN  /\ tool_call'.dispatched \in {<<>>, <<"play", name>>}
              /\ tool_call'.dispatched # <<>> => MayPlay(name)
              /\ ~MayPlay(name)
                  => (tool_call'.dispatched = <<>>
                      /\ tool_call'.returned \in {Headless, NoAnimation, Silent})
      ]_vars

\* the sleeping lamp was asked through the party tool for "sleep", which was
\* dispatched
C23_Witness ==
    /\ tool_call.tool = "party_play_recording"
    /\ tool_call.is_sleeping
    /\ tool_call.recording_name = "sleep"
    /\ tool_call.dispatched = <<"play", "sleep">>
    /\ manual_control_override = "False"

====
